---- MODULE Spec2Model ----
(***************************************************************************)
(* ReportGenerator (src/src/ReportGenerator.refactored.js).                *)
(*                                                                         *)
(* A string is a sequence of one-character strings, so that template       *)
(* interpolation, concatenation and trim() are computed character by       *)
(* character.  A JavaScript object is a record; an own property that is    *)
(* absent is a field that is not in the record's DOMAIN.                   *)
(***************************************************************************)
EXTENDS Integers, Sequences, FiniteSets, TLC

VARIABLES
  db,            \* this.db, stored by the constructor
  argType,       \* the caller's reportType argument
  argUser,       \* the caller's user object, as it is now
  argItems,      \* the caller's items array and its item objects, as they are now
  given,         \* the arguments as they were when the call was made
  locProcessed,  \* generateReport's local processedItems (line 42)
  locTotal,      \* generateReport's local total (line 45)
  report,        \* the string generateReport returned
  history,       \* the calls returned so far on this instance: arguments and result
  pc             \* "ready": constructed, arguments at hand; "done": a call returned

vars == <<db, argType, argUser, argItems, given, locProcessed, locTotal, report, history, pc>>

----------------------------------------------------------------------------
(* Bounds of the model. *)

\* The longest items array passed to generateReport.
MaxLen == 2

\* The number of calls made on one instance under SpecHistory.
MaxCalls == 3

----------------------------------------------------------------------------
(* Program constants. *)

USER_VALUE_LIMIT == 500

ADMIN_PRIORITY_LIMIT == 1000

----------------------------------------------------------------------------
(* String literals of the source, character by character. *)

CsvHeader ==
  <<"I","D",",","N","O","M","E",",","V","A","L","O","R",",","U","S","U","A","R","I","O","\n">>

CsvFooter ==
  <<"\n","T","o","t","a","l",",",",","\n">>

CsvTotalTail ==
  <<",",",","\n">>

HtmlOpen ==
  <<"<","h","t","m","l",">","<","b","o","d","y",">","\n">>

HtmlTitle ==
  <<"<","h","1",">","R","e","l","a","t","ó","r","i","o","<","/","h","1",">","\n">>

HtmlUserOpen ==
  <<"<","h","2",">","U","s","u","á","r","i","o",":"," ">>

HtmlUserClose ==
  <<"<","/","h","2",">","\n">>

HtmlTableOpen ==
  <<"<","t","a","b","l","e",">","\n">>

HtmlTableHead ==
  <<"<","t","r",">","<","t","h",">","I","D","<","/","t","h",">","<","t","h",">","N","o","m",
      "e","<","/","t","h",">","<","t","h",">","V","a","l","o","r","<","/","t","h",">","<",
      "/","t","r",">","\n">>

BoldStyle ==
  <<"s","t","y","l","e","=","\"","f","o","n","t","-","w","e","i","g","h","t",":","b","o",
      "l","d",";","\"">>

HtmlTableClose ==
  <<"<","/","t","a","b","l","e",">","\n">>

HtmlTotalOpen ==
  <<"<","h","3",">","T","o","t","a","l",":"," ">>

HtmlTotalClose ==
  <<"<","/","h","3",">","\n">>

HtmlClose ==
  <<"<","/","b","o","d","y",">","<","/","h","t","m","l",">","\n">>

TrOpen ==
  <<"<","t","r"," ">>

TdFirst ==
  <<">","<","t","d",">">>

TdSep ==
  <<"<","/","t","d",">","<","t","d",">">>

TrClose ==
  <<"<","/","t","d",">","<","/","t","r",">","\n">>

----------------------------------------------------------------------------
(* JavaScript primitives the source uses. *)

\* The characters String.prototype.trim removes, among those that occur here.
WhiteSpace == {" ", "\n", "\t", "\r"}

RECURSIVE trimStart(_)
trimStart(s) ==
  IF s # <<>> /\ Head(s) \in WhiteSpace THEN trimStart(Tail(s)) ELSE s

RECURSIVE trimEnd(_)
trimEnd(s) ==
  IF s # <<>> /\ s[Len(s)] \in WhiteSpace THEN trimEnd(SubSeq(s, 1, Len(s) - 1)) ELSE s

\* String.prototype.trim
trim(s) == trimEnd(trimStart(s))

Digit == <<"0","1","2","3","4","5","6","7","8","9">>

RECURSIVE NatToString(_)
NatToString(n) ==
  IF n < 10 THEN <<Digit[n + 1]>>
  ELSE NatToString(n \div 10) \o <<Digit[(n % 10) + 1]>>

\* `${n}` for an integer n: its decimal digits, with a sign when negative.
NumberToString(n) ==
  IF n < 0 THEN <<"-">> \o NatToString(0 - n) ELSE NatToString(n)

\* item.priority ? ... : ... -- an absent property reads undefined, which is falsy.
Truthy(item) == "priority" \in DOMAIN item /\ item.priority = TRUE

----------------------------------------------------------------------------
(* ReportGenerator. *)

\* Mutant of annotate: the limit itself counts as priority (>= for >).
annotate_atLeast(item) ==
  [f \in (DOMAIN item) \cup {"priority"} |->
     IF f = "priority" THEN item.value >= ADMIN_PRIORITY_LIMIT ELSE item[f]]

\* ({ ...item, priority: item.value > ADMIN_PRIORITY_LIMIT }): a new object with
\* item's own properties, and priority set last.
annotate(item) ==
  [f \in (DOMAIN item) \cup {"priority"} |->
     IF f = "priority" THEN item.value > ADMIN_PRIORITY_LIMIT ELSE item[f]]

\* items.map(annotate): a new array, one element per element, in order.
map(items) == [i \in 1..Len(items) |-> annotate(items[i])]

\* Mutant of visible: the limit itself is hidden (< for <=).
visible_below(item) == item.value < USER_VALUE_LIMIT

\* The predicate of the USER filter.
visible(item) == item.value <= USER_VALUE_LIMIT

\* items.filter(visible): a new array of the elements that pass, in order.
RECURSIVE filter(_)
filter(items) ==
  IF items = <<>> THEN <<>>
  ELSE IF visible(Head(items)) THEN <<Head(items)>> \o filter(Tail(items))
  ELSE filter(Tail(items))

\* Mutant of _getProcessedItems: a role that is not recognised sees every item.
_getProcessedItems_unknownSeesAll(user, items) ==
  IF user.role = "ADMIN" THEN map(items)
  ELSE IF user.role = "USER" THEN filter(items)
  ELSE items

_getProcessedItems(user, items) ==
  IF user.role = "ADMIN" THEN map(items)
  ELSE IF user.role = "USER" THEN filter(items)
  ELSE <<>>

\* processedItems.reduce((sum, item) => sum + item.value, 0)
RECURSIVE reduce(_, _)
reduce(items, sum) ==
  IF items = <<>> THEN sum ELSE reduce(Tail(items), sum + Head(items).value)

\* Mutant of sumOfValues: the total is kept on the instance and never reset.
sumOfValues_accumulated(processedItems) == reduce(processedItems, locTotal)

sumOfValues(processedItems) == reduce(processedItems, 0)

\* Mutant of csvRow: the user's name is left out of the row.
csvRow_noUserName(user, item) ==
  NumberToString(item.id) \o <<",">> \o item.name \o <<",">>
    \o NumberToString(item.value) \o <<"\n">>

csvRow(user, item) ==
  NumberToString(item.id) \o <<",">> \o item.name \o <<",">>
    \o NumberToString(item.value) \o <<",">> \o user.name \o <<"\n">>

RECURSIVE csvBody(_, _)
csvBody(user, items) ==
  IF items = <<>> THEN <<>> ELSE csvRow(user, Head(items)) \o csvBody(user, Tail(items))

_generateCsvReport(user, items, total) ==
  trim(CsvHeader \o csvBody(user, items) \o CsvFooter \o NumberToString(total) \o CsvTotalTail)

\* Mutant of htmlRow: the style is never written.
htmlRow_neverBold(item) ==
  TrOpen \o TdFirst \o NumberToString(item.id) \o TdSep \o item.name \o TdSep
    \o NumberToString(item.value) \o TrClose

htmlRow(item) ==
  LET style == IF Truthy(item) THEN BoldStyle ELSE <<>> IN
  TrOpen \o style \o TdFirst \o NumberToString(item.id) \o TdSep \o item.name \o TdSep
    \o NumberToString(item.value) \o TrClose

RECURSIVE htmlBody(_)
htmlBody(items) ==
  IF items = <<>> THEN <<>> ELSE htmlRow(Head(items)) \o htmlBody(Tail(items))

_generateHtmlReport(user, items, total) ==
  trim(HtmlOpen \o HtmlTitle \o HtmlUserOpen \o user.name \o HtmlUserClose \o HtmlTableOpen
         \o HtmlTableHead \o htmlBody(items) \o HtmlTableClose
         \o HtmlTotalOpen \o NumberToString(total) \o HtmlTotalClose \o HtmlClose)

\* Mutant of generateReport: the total is summed over the items as passed.
generateReport_rawTotal(reportType, user, items) ==
  LET processedItems == _getProcessedItems(user, items)
      total == sumOfValues(items)
  IN  IF reportType = "CSV" THEN _generateCsvReport(user, processedItems, total)
      ELSE IF reportType = "HTML" THEN _generateHtmlReport(user, processedItems, total)
      ELSE <<>>

\* Mutant of generateReport: a format that is not recognised falls back to CSV.
generateReport_defaultCsv(reportType, user, items) ==
  LET processedItems == _getProcessedItems(user, items)
      total == sumOfValues(processedItems)
  IN  IF reportType = "HTML" THEN _generateHtmlReport(user, processedItems, total)
      ELSE _generateCsvReport(user, processedItems, total)

generateReport(reportType, user, items) ==
  LET processedItems == _getProcessedItems(user, items)
      total == sumOfValues(processedItems)
  IN  IF reportType = "CSV" THEN _generateCsvReport(user, processedItems, total)
      ELSE IF reportType = "HTML" THEN _generateHtmlReport(user, processedItems, total)
      ELSE <<>>

\* Mutant of afterCall: the ADMIN path sets priority on the caller's own item objects.
afterCall_inPlace(reportType, user, items) ==
  [db |-> db, user |-> user, items |-> IF user.role = "ADMIN" THEN map(items) ELSE items]

\* What a call leaves of the instance and of the caller's objects: no statement of
\* lines 40-131 assigns to this.db, to user, to items or to a property of an
\* element of items (map and filter return new arrays, the spread a new object).
afterCall(reportType, user, items) ==
  [db |-> db, user |-> user, items |-> items]

----------------------------------------------------------------------------
(* The arguments the model passes. *)

Alice == <<"A","l","i","c","e">>

Bob == <<"B","o","b">>

Eve == <<"E","v","e">>

Users ==
  { [name |-> Alice, role |-> "ADMIN"],
    [name |-> Bob, role |-> "USER"],
    [name |-> Eve, role |-> "GUEST"] }

Formats == {"CSV", "HTML", "XML", "csv"}

ItemName == <<  <<"A">>, <<"B","x">>  >>

Values == {100, 500, 501, 1000, 1001}

\* Items of the documented shape {id, name, value}.
PlainItems == {[id |-> i, name |-> ItemName[i], value |-> v] : i \in 1..2, v \in Values}

\* Items that already carry a priority property of their own.
FlaggedItems ==
  { [id |-> 2, name |-> ItemName[2], value |-> 100, priority |-> TRUE],
    [id |-> 2, name |-> ItemName[2], value |-> 1000, priority |-> TRUE],
    [id |-> 1, name |-> ItemName[1], value |-> 1001, priority |-> FALSE] }

Items == PlainItems \cup FlaggedItems

ItemSeqs == UNION {[1..n -> Items] : n \in 0..MaxLen}

\* The smaller domain of the repeated calls of SpecHistory.
HistoryUsers == {u \in Users : u.role # "GUEST"}

HistoryFormats == {"CSV", "HTML", "XML"}

HistoryItemSeqs ==
  { <<>>,
    <<[id |-> 1, name |-> ItemName[1], value |-> 100]>>,
    <<[id |-> 2, name |-> ItemName[2], value |-> 1001]>> }

----------------------------------------------------------------------------
(* The state machine. *)

\* new ReportGenerator(database), and the arguments of the first call at hand.
Start(formats, users, itemSeqs) ==
  /\ db = "database"
  /\ argType \in formats
  /\ argUser \in users
  /\ argItems \in itemSeqs
  /\ given = [reportType |-> argType, user |-> argUser, items |-> argItems]
  /\ locProcessed = <<>>
  /\ locTotal = 0
  /\ report = <<>>
  /\ history = <<>>
  /\ pc = "ready"

Init == Start(Formats, Users, ItemSeqs)

InitHistory == Start(HistoryFormats, HistoryUsers, HistoryItemSeqs)

\* One whole call generateReport(reportType, user, items) on the instance.
Call(reportType, user, items) ==
  LET after == afterCall(reportType, user, items)
      result == generateReport(reportType, user, items)
      args == [reportType |-> reportType, user |-> user, items |-> items]
  IN  /\ given' = args
      /\ locProcessed' = _getProcessedItems(user, items)
      /\ locTotal' = sumOfValues(_getProcessedItems(user, items))
      /\ report' = result
      /\ db' = after.db
      /\ argType' = reportType
      /\ argUser' = after.user
      /\ argItems' = after.items
      /\ history' = Append(history, [given |-> args, report |-> result])
      /\ pc' = "done"

\* The first call, with the arguments at hand.
GenerateReport ==
  /\ pc = "ready"
  /\ Call(argType, argUser, argItems)

\* A further call on the same instance, with arguments of the caller's choice.
GenerateReportAgain ==
  /\ pc = "done"
  /\ Len(history) < MaxCalls
  /\ \E reportType \in HistoryFormats, user \in HistoryUsers, items \in HistoryItemSeqs :
       Call(reportType, user, items)

Next == GenerateReport

NextHistory == GenerateReport \/ GenerateReportAgain

Spec == Init /\ [][Next]_vars

SpecHistory == InitHistory /\ [][NextHistory]_vars

----------------------------------------------------------------------------
(* The texts the specification names, and how a report is read back. *)

\* The CSV header line.
TextCsvHeader ==
  <<"I","D",",","N","O","M","E",",","V","A","L","O","R",",","U","S","U","A","R","I","O">>

\* The CSV line that announces the total.
TextCsvTotalLabel ==
  <<"T","o","t","a","l",",",",">>

\* What follows the total on the last CSV line.
TextCsvTotalTail ==
  <<",",",">>

\* The first line of the HTML document.
TextHtmlOpen ==
  <<"<","h","t","m","l",">","<","b","o","d","y",">">>

\* The HTML heading.
TextHtmlTitle ==
  <<"<","h","1",">","R","e","l","a","t","ó","r","i","o","<","/","h","1",">">>

\* The HTML sub-heading, before the user's name.
TextHtmlUserOpen ==
  <<"<","h","2",">","U","s","u","á","r","i","o",":"," ">>

\* The HTML sub-heading, after the user's name.
TextHtmlUserClose ==
  <<"<","/","h","2",">">>

\* The line that opens the table.
TextTableOpen ==
  <<"<","t","a","b","l","e",">">>

\* The table's header row.
TextTableHead ==
  <<"<","t","r",">","<","t","h",">","I","D","<","/","t","h",">","<","t","h",">","N","o",
      "m","e","<","/","t","h",">","<","t","h",">","V","a","l","o","r","<","/","t","h",">",
      "<","/","t","r",">">>

\* The line that closes the table.
TextTableClose ==
  <<"<","/","t","a","b","l","e",">">>

\* The HTML total heading, before the total.
TextTotalOpen ==
  <<"<","h","3",">","T","o","t","a","l",":"," ">>

\* The HTML total heading, after the total.
TextTotalClose ==
  <<"<","/","h","3",">">>

\* The last line of the HTML document.
TextHtmlClose ==
  <<"<","/","b","o","d","y",">","<","/","h","t","m","l",">">>

\* The bold-style attribute.
TextBoldAttr ==
  <<"s","t","y","l","e","=","\"","f","o","n","t","-","w","e","i","g","h","t",":","b","o",
      "l","d",";","\"">>

\* The name of a style attribute.
TextStyle ==
  <<"s","t","y","l","e">>

\* An item row, up to its attributes.
TextRowOpen ==
  <<"<","t","r"," ">>

\* An item row, from its attributes to its first cell.
TextCellOpen ==
  <<">","<","t","d",">">>

\* Between two cells of an item row.
TextCellSep ==
  <<"<","/","t","d",">","<","t","d",">">>

\* The end of an item row.
TextRowClose ==
  <<"<","/","t","d",">","<","/","t","r",">">>

StartsWith(s, p) == Len(s) >= Len(p) /\ SubSeq(s, 1, Len(p)) = p

EndsWith(s, p) == Len(s) >= Len(p) /\ SubSeq(s, Len(s) - Len(p) + 1, Len(s)) = p

Occurs(s, p, i) == i + Len(p) - 1 <= Len(s) /\ SubSeq(s, i, i + Len(p) - 1) = p

Contains(s, p) == \E i \in 1..Len(s) : Occurs(s, p, i)

\* The pieces of s between the occurrences of the separator p, left to right.
RECURSIVE SplitOn(_, _)
SplitOn(s, p) ==
  IF ~Contains(s, p) THEN <<s>>
  ELSE LET k == CHOOSE i \in 1..Len(s) : Occurs(s, p, i) /\ \A j \in 1..(i - 1) : ~Occurs(s, p, j)
       IN  <<SubSeq(s, 1, k - 1)>> \o SplitOn(SubSeq(s, k + Len(p), Len(s)), p)

LinesOf(s) == SplitOn(s, <<"\n">>)

FieldsOf(line) == SplitOn(line, <<",">>)

DecimalDigits == {"0","1","2","3","4","5","6","7","8","9"}

DigitValue(c) ==
  CASE c = "0" -> 0 [] c = "1" -> 1 [] c = "2" -> 2 [] c = "3" -> 3 [] c = "4" -> 4
    [] c = "5" -> 5 [] c = "6" -> 6 [] c = "7" -> 7 [] c = "8" -> 8 [] c = "9" -> 9

RECURSIVE NumeralValue(_)
NumeralValue(s) ==
  IF s = <<>> THEN 0
  ELSE 10 * NumeralValue(SubSeq(s, 1, Len(s) - 1)) + DigitValue(s[Len(s)])

IsNumeral(s) ==
  /\ s # <<>>
  /\ \A i \in 1..Len(s) : s[i] \in DecimalDigits
  /\ Len(s) > 1 => s[1] # "0"

\* s is the decimal numeral of the integer n.
Reads(s, n) ==
  IF n < 0 THEN s # <<>> /\ Head(s) = "-" /\ IsNumeral(Tail(s)) /\ NumeralValue(Tail(s)) = 0 - n
  ELSE IsNumeral(s) /\ NumeralValue(s) = n

\* The sum of value over the elements of s at the indexes in idx.
RECURSIVE SumAt(_, _)
SumAt(s, idx) ==
  IF idx = {} THEN 0
  ELSE LET i == CHOOSE j \in idx : TRUE IN s[i].value + SumAt(s, idx \ {i})

\* line is the CSV row of an item with this id, name and value, for this user name.
IsCsvRow(line, id, name, value, userName) ==
  LET f == FieldsOf(line)
  IN  /\ Len(f) = 4
      /\ Reads(f[1], id)
      /\ f[2] = name
      /\ Reads(f[3], value)
      /\ f[4] = userName

\* line is the HTML row of an item with this id, name and value, bold or not.
IsHtmlRow(line, bold, id, name, value) ==
  LET c == SplitOn(line, TextCellSep)
      open == TextRowOpen \o (IF bold THEN TextBoldAttr ELSE <<>>) \o TextCellOpen
  IN  /\ Len(c) = 3
      /\ StartsWith(c[1], open)
      /\ Reads(SubSeq(c[1], Len(open) + 1, Len(c[1])), id)
      /\ c[2] = name
      /\ EndsWith(c[3], TextRowClose)
      /\ Reads(SubSeq(c[3], 1, Len(c[3]) - Len(TextRowClose)), value)

\* The item rows of a CSV report: after the header, before the blank line and the total.
CsvItemLines(r) == SubSeq(LinesOf(r), 2, Len(LinesOf(r)) - 3)

\* The item rows of an HTML report: after the table's header row, before </table>.
HtmlItemLines(r) == SubSeq(LinesOf(r), 6, Len(LinesOf(r)) - 3)

\* The total a CSV report states: what its last line reads before ",,".
CsvStatesTotal(r, n) ==
  LET l == LinesOf(r)[Len(LinesOf(r))]
  IN  EndsWith(l, TextCsvTotalTail) /\ Reads(SubSeq(l, 1, Len(l) - Len(TextCsvTotalTail)), n)

\* The total an HTML report states: what its total heading reads.
HtmlStatesTotal(r, n) ==
  LET l == LinesOf(r)[Len(LinesOf(r)) - 1]
  IN  /\ StartsWith(l, TextTotalOpen)
      /\ EndsWith(l, TextTotalClose)
      /\ Reads(SubSeq(l, Len(TextTotalOpen) + 1, Len(l) - Len(TextTotalClose)), n)

\* The own priority of an item is true.
PriorityTrue(item) == "priority" \in DOMAIN item /\ item.priority = TRUE

Returned == pc = "done"

----------------------------------------------------------------------------
(* The claims. *)

\* C1: for role ADMIN the processed sequence has the length of the input and the
\* same items in the same order (every own property of the input item other than
\* priority is kept), and each processed item's priority is true exactly when its
\* value is strictly greater than 1000; at value 1000 it is false.
C1_AdminKeepsAllAndFlagsAbove1000 ==
  (Returned /\ given.user.role = "ADMIN") =>
    /\ Len(locProcessed) = Len(given.items)
    /\ \A i \in 1..Len(given.items) :
         /\ \A f \in (DOMAIN given.items[i]) \ {"priority"} :
              f \in DOMAIN locProcessed[i] /\ locProcessed[i][f] = given.items[i][f]
         /\ DOMAIN locProcessed[i] = (DOMAIN given.items[i]) \cup {"priority"}
         /\ locProcessed[i].priority = (given.items[i].value > 1000)
         /\ given.items[i].value = 1000 => locProcessed[i].priority = FALSE

\* C1's case: an ADMIN call whose items hold a value of exactly 1000 and one above it.
C1_Witness ==
  /\ Returned
  /\ given.user.role = "ADMIN"
  /\ \E i, j \in 1..Len(given.items) :
       /\ given.items[i].value = 1000
       /\ given.items[j].value > 1000
       /\ locProcessed[i].priority = FALSE
       /\ locProcessed[j].priority = TRUE

\* C2: for role USER the processed sequence is exactly the subsequence of the input
\* items with value <= 500, in input order (value 500 is kept), and the item rows of
\* the CSV and of the HTML output are the rows of those items: no row shows an item
\* with value greater than 500.
C2_UserSeesOnlyUpTo500 ==
  (Returned /\ given.user.role = "USER") =>
    LET kept == SelectSeq(given.items, LAMBDA it : it.value <= 500)
    IN  /\ locProcessed = kept
        /\ given.reportType = "CSV" =>
             /\ Len(CsvItemLines(report)) = Len(kept)
             /\ \A i \in 1..Len(kept) :
                  IsCsvRow(CsvItemLines(report)[i], kept[i].id, kept[i].name, kept[i].value,
                           given.user.name)
        /\ given.reportType = "HTML" =>
             /\ Len(HtmlItemLines(report)) = Len(kept)
             /\ \A i \in 1..Len(kept) :
                  \E bold \in BOOLEAN :
                    IsHtmlRow(HtmlItemLines(report)[i], bold, kept[i].id, kept[i].name,
                              kept[i].value)

\* C2's case: a USER report over an item of value exactly 500 and one above 500.
C2_Witness ==
  /\ Returned
  /\ given.user.role = "USER"
  /\ given.reportType \in {"CSV", "HTML"}
  /\ \E i, j \in 1..Len(given.items) :
       given.items[i].value = 500 /\ given.items[j].value > 500
  /\ Len(locProcessed) = 1

\* C3: for a role that is neither ADMIN nor USER the call returns, the processed
\* sequence is empty and the total is 0; the lines of the CSV output that are not
\* blank are the header line, Total,, and 0,, and nothing else; the HTML output has
\* the table's header row, no item row, and Total: 0.
C3_UnknownRoleGivesEmptyReport ==
  (Returned /\ given.user.role \notin {"ADMIN", "USER"}) =>
    /\ locProcessed = <<>>
    /\ locTotal = 0
    /\ given.reportType = "CSV" =>
         /\ SelectSeq(LinesOf(report), LAMBDA l : l # <<>>)
              = <<TextCsvHeader, TextCsvTotalLabel, <<"0">> \o TextCsvTotalTail>>
         /\ CsvItemLines(report) = <<>>
    /\ given.reportType = "HTML" =>
         LinesOf(report) =
           << TextHtmlOpen, TextHtmlTitle,
              TextHtmlUserOpen \o given.user.name \o TextHtmlUserClose,
              TextTableOpen, TextTableHead, TextTableClose,
              TextTotalOpen \o <<"0">> \o TextTotalClose, TextHtmlClose >>

\* C3's case: a GUEST asks for a CSV or HTML report over items that are not empty.
C3_Witness ==
  /\ Returned
  /\ given.user.role = "GUEST"
  /\ given.reportType \in {"CSV", "HTML"}
  /\ Len(given.items) > 0
  /\ report # <<>>

\* C4: for every role and both formats the total the report states is the sum of
\* value over the role-visible items: the items with value <= 500 for USER, all
\* items for ADMIN, none for any other role.  That sum is a function of the user and
\* the items alone, so the CSV and the HTML total of the same user and items agree.
C4_TotalIsSumOfVisibleItems ==
  (Returned /\ given.reportType \in {"CSV", "HTML"}) =>
    LET shown ==
          IF given.user.role = "ADMIN" THEN 1..Len(given.items)
          ELSE IF given.user.role = "USER"
                 THEN {i \in 1..Len(given.items) : given.items[i].value <= 500}
          ELSE {}
        sum == SumAt(given.items, shown)
    IN  /\ given.reportType = "CSV" => CsvStatesTotal(report, sum)
        /\ given.reportType = "HTML" => HtmlStatesTotal(report, sum)
        /\ locTotal = sum

\* C4's case: a USER report over items of which one is hidden and one is shown.
C4_Witness ==
  /\ Returned
  /\ given.user.role = "USER"
  /\ given.reportType \in {"CSV", "HTML"}
  /\ \E i, j \in 1..Len(given.items) :
       given.items[i].value <= 500 /\ given.items[j].value > 500
  /\ locTotal > 0

\* C5: for a format other than exactly "CSV" or "HTML" the call returns the empty
\* string, whatever the role and the items.
C5_OtherFormatGivesEmptyString ==
  (Returned /\ given.reportType \notin {"CSV", "HTML"}) => report = <<>>

\* C5's case: an ADMIN asks for an XML report over items that are not empty.
C5_Witness ==
  /\ Returned
  /\ given.reportType = "XML"
  /\ given.user.role = "ADMIN"
  /\ Len(given.items) > 0
  /\ report = <<>>

\* C6: a CSV report is, in order: the header line ID,NOME,VALOR,USUARIO; one line
\* per processed item, in processed order, reading id,name,value,user name; one
\* blank line; the line Total,,; the line <total>,, with no newline after it.
C6_CsvLayout ==
  (Returned /\ given.reportType = "CSV") =>
    LET l == LinesOf(report)
        n == Len(locProcessed)
    IN  /\ Len(l) = n + 4
        /\ l[1] = TextCsvHeader
        /\ \A i \in 1..n :
             IsCsvRow(l[1 + i], locProcessed[i].id, locProcessed[i].name,
                      locProcessed[i].value, given.user.name)
        /\ l[n + 2] = <<>>
        /\ l[n + 3] = TextCsvTotalLabel
        /\ CsvStatesTotal(report, locTotal)
        /\ report[Len(report)] # "\n"

\* C6's case: a CSV report with two item rows.
C6_Witness ==
  /\ Returned
  /\ given.reportType = "CSV"
  /\ Len(locProcessed) = 2
  /\ Len(LinesOf(report)) = 6

\* C7: an HTML report's table holds one row per processed item, in processed order,
\* after the header row and before the total heading; a row carries the bold-style
\* attribute exactly when its item's priority is true, and otherwise no style
\* attribute; for role ADMIN a row is bold exactly when the item's value is above 1000.
C7_HtmlRowsAndBold ==
  (Returned /\ given.reportType = "HTML") =>
    LET l == LinesOf(report)
        n == Len(locProcessed)
    IN  /\ Len(l) = n + 8
        /\ l[4] = TextTableOpen
        /\ l[5] = TextTableHead
        /\ \A i \in 1..n :
             /\ IsHtmlRow(l[5 + i], PriorityTrue(locProcessed[i]), locProcessed[i].id,
                          locProcessed[i].name, locProcessed[i].value)
             /\ Contains(l[5 + i], TextBoldAttr) <=> PriorityTrue(locProcessed[i])
             /\ ~PriorityTrue(locProcessed[i]) => ~Contains(l[5 + i], TextStyle)
             /\ given.user.role = "ADMIN" =>
                  (Contains(l[5 + i], TextBoldAttr) <=> given.items[i].value > 1000)
        /\ l[n + 6] = TextTableClose
        /\ HtmlStatesTotal(report, locTotal)

\* C7's case: an ADMIN HTML report with a bold row and a row that is not bold.
C7_Witness ==
  /\ Returned
  /\ given.reportType = "HTML"
  /\ given.user.role = "ADMIN"
  /\ \E i, j \in 1..Len(locProcessed) :
       /\ Contains(HtmlItemLines(report)[i], TextBoldAttr)
       /\ ~Contains(HtmlItemLines(report)[j], TextBoldAttr)

C9_CallLeavesInputsAndInstance ==
  Returned =>
    /\ argItems = given.items
    /\ Len(argItems) = Len(given.items)
    /\ \A i \in 1..Len(given.items) : DOMAIN argItems[i] = DOMAIN given.items[i]
    /\ argUser = given.user
    /\ argType = given.reportType
    /\ db = "database"

\* C9's case: an ADMIN call over an item without a priority of its own, whose copy
\* in the processed sequence has one.
C9_Witness ==
  /\ Returned
  /\ given.user.role = "ADMIN"
  /\ \E i \in 1..Len(given.items) :
       /\ "priority" \notin DOMAIN given.items[i]
       /\ locProcessed[i].priority = TRUE

\* C10: for role USER no row of the HTML output carries the bold-style attribute,
\* also when an input item carries a true priority of its own; and for role ADMIN
\* an input item's own priority is overridden by value > 1000.
C10_BoldOnlyFromAdminPath ==
  (Returned /\ given.reportType = "HTML") =>
    /\ given.user.role = "USER" =>
         \A i \in 1..Len(HtmlItemLines(report)) :
           ~Contains(HtmlItemLines(report)[i], TextBoldAttr)
    /\ given.user.role = "ADMIN" =>
         \A i \in 1..Len(given.items) :
           Contains(HtmlItemLines(report)[i], TextBoldAttr) <=> given.items[i].value > 1000

====
